---- MODULE Spec2Model ----
(***************************************************************************)
(* Terminal session manager of src-tauri/src/lib.rs: the session registry  *)
(* (AppState.terminals, one tokio Mutex around a HashMap), the Tauri       *)
(* command handlers that work on it, and the OS processes they spawn and   *)
(* signal.  Every handler is an async task: it is called, waits for the    *)
(* registry mutex, runs its body while holding the guard, and drops the    *)
(* guard when it returns.                                                  *)
(***************************************************************************)
EXTENDS Integers, Sequences, FiniteSets, TLC

\* ------------------------------------------------------------------ bounds
NumTasks == 2          \* concurrent handler invocations
MaxSessions == 2       \* session ids generated over the registry's lifetime
MaxProcs == 2          \* OS processes spawned over the registry's lifetime
MaxChunks == 2         \* output chunks one interactive process produces

Tasks == 1..NumTasks
SessionIds == 1..MaxSessions
ExitCodes == {0, 1}
WorkingDirs == {"/tmp", "/nonexistent"}

\* Option<T>: None is the empty sequence, Some(x) the one-element sequence.
None == << >>
Some(x) == << x >>
IsSome(o) == o # None
Unwrap(o) == o[1]

\* The tokio mutexes: the one around the registry map (AppState.terminals)
\* and, per session, the one around current_process' Child and the one around
\* output_buffer's String.
RegistryMutex == << "registry" >>
ProcessMutex(sid) == << "process", sid >>
BufferMutex(sid) == << "buffer", sid >>
Mutexes ==
    {RegistryMutex} \cup { ProcessMutex(sid) : sid \in SessionIds }
                    \cup { BufferMutex(sid) : sid \in SessionIds }

\* The k-th process the OS creates gets this pid.
PidOf(k) == 100 + k

Range(s) == { s[i] : i \in DOMAIN s }

\* Vec::retain(|&p| p != x)
Retain(s, x) == SelectSeq(s, LAMBDA p : p # x)

VARIABLES
    terminals,   \* AppState.terminals: session id -> TerminalSessionData
    lock,        \* holder of the registry mutex: None or Some(task)
    queue,       \* the tasks waiting for the registry mutex, first come first
    pc,          \* where each handler task is
    call,        \* the handler each task runs and its arguments
    result,      \* what the task's handler returned
    sent,        \* the signals the task's handler has sent, in order
    procs,       \* the OS process table: pid -> process
    issued,      \* every session id Uuid::new_v4 has produced, in order
    steps,       \* per task: the lock operations its handler has still to do
    held         \* per mutex: its holder, None or Some(task)

vars == << terminals, lock, queue, pc, call, result, sent, procs, issued,
           steps, held >>

\* The handlers' steps on the single mutexes are followed in LockSpec only;
\* in Spec a handler's body is one step and these two stay as Init has them.
lockvars == << steps, held >>

\* ---------------------------------------------------------- result values
\* A String is a sequence of tokens; "" is << >>.
\* session: the TerminalSession create returns; wrote: the child whose stdin
\* send_input wrote to.
Ok(v) == [ok |-> TRUE, val |-> v, session |-> None, wrote |-> None]
Err(v) == [ok |-> FALSE, val |-> v, session |-> None, wrote |-> None]
NoResult == Err(<< "<pending>" >>)

NOT_FOUND == << "Terminal session not found" >>
NO_ACTIVE == << "No active process to send input to" >>
SEND_FAILED == << "Failed to send input" >>
SPAWN_FAILED == << "Failed to spawn command" >>
EXEC_FAILED == << "Failed to execute command" >>
NO_PROCESS == << "__NO_PROCESS__" >>
PROCESS_ERROR == << "__PROCESS_ERROR__" >>
ALREADY_ATTACHED == << "A process is already attached" >>

\* format!("{:?}", exit_status.code()) of an Option<i32>
FmtCode(code) ==
    IF code = None THEN "None"
    ELSE << "Some(0)", "Some(1)" >>[Unwrap(code) + 1]

\* format!("__PROCESS_EXITED__:{:?}", code)
ExitSentinel(code) == << "__PROCESS_EXITED__:", FmtCode(code) >>

\* ------------------------------------------------------------ OS processes
\* st: "running", "zombie" (exited, not yet waited for) or "reaped".
\* code: the exit status' code(): Some(c) after exit(c), None after a signal.
\* trap: the running command ignores SIGTERM.  emitted: the chunks the output
\* reader has taken from the process so far.  kind: "oneshot" (spawned by
\* execute_terminal_command, stdin not piped) or "interactive" (stdin piped).
NewProc(sid, kind, trap) ==
    [st |-> "running", trap |-> trap, code |-> None, owner |-> sid,
     kind |-> kind, emitted |-> 0]

\* process.stdin.as_mut(): Some only for a child spawned with a piped stdin.
HasStdin(proc) == proc.kind = "interactive"

\* The process has ended with this status and waits to be reaped.
Exited(proc, status) ==
    [proc EXCEPT !.st = "zombie", !.trap = FALSE, !.code = status]

\* The process has been waited for: the OS keeps nothing of it but the fact
\* that its pid is used up; status is what the Child handle still caches.
Reaped(proc, status) ==
    [proc EXCEPT !.st = "reaped", !.trap = FALSE, !.code = status,
                 !.emitted = 0]

NextPid(ps) == PidOf(Cardinality(DOMAIN ps) + 1)
CanSpawn(ps) == Cardinality(DOMAIN ps) < MaxProcs

\* The process a kill(2) target names: pid for a process, -pgid for a group.
\* process_group(0) makes every spawned command the leader of its own group.
TargetPid(target) == IF target < 0 THEN -target ELSE target

\* kill(2) succeeds while the target still exists (running or zombie).
SignalOk(ps, target) ==
    /\ TargetPid(target) \in DOMAIN ps
    /\ ps[TargetPid(target)].st # "reaped"

\* What a signal does: SIGKILL ends a running process, SIGTERM ends it unless
\* the command traps the signal.  A failed kill changes nothing.
Deliver(ps, target, sig) ==
    LET p == TargetPid(target) IN
    IF /\ SignalOk(ps, target)
       /\ ps[p].st = "running"
       /\ (sig = "SIGKILL" \/ ~ps[p].trap)
    THEN [ps EXCEPT ![p] = Exited(@, None)]
    ELSE ps

\* unsafe { libc::kill(target, sig); } with the return value dropped.
\* env is [ps: the process table, log: the signals sent so far].
LibcKill(env, target, sig) ==
    [ps |-> Deliver(env.ps, target, sig),
     log |-> Append(env.log, << target, sig, SignalOk(env.ps, target) >>)]

\* kill(t, SIGTERM); sleep; kill(t, SIGKILL)
TermThenKill(env, target) ==
    LibcKill(LibcKill(env, target, "SIGTERM"), target, "SIGKILL")

\* ------------------------------------------------- tokio::process::Child
\* Child::id(): the pid until the child has been waited for, then None.
ChildId(ps, p) == IF ps[p].st = "reaped" THEN None ELSE Some(p)

\* let _ = process.kill().await: SIGKILL to the child, then wait for it; an
\* already reaped child gives an error, which is dropped.  Every caller lets
\* go of the handle afterwards, and of the status it caches.
ChildKill(env, p) ==
    IF env.ps[p].st = "reaped"
    THEN [ps |-> [env.ps EXCEPT ![p] = Reaped(@, None)],
          log |-> Append(env.log, << p, "Child::kill", FALSE >>)]
    ELSE [ps |-> [env.ps EXCEPT ![p] = Reaped(@, None)],
          log |-> Append(env.log, << p, "Child::kill", TRUE >>)]

\* Child::try_wait(): "exited" with the status once the child has ended (the
\* status is cached after the first success), else "running".
TryWait(ps, p) == IF ps[p].st = "running" THEN "running" ELSE "exited"

\* ------------------------------------------------------------- termination
\* Phase 1: the attached current process, its group and then its handle.
KillCurrent(env, sd) ==
    IF IsSome(sd.current_process)
    THEN LET p == Unwrap(sd.current_process)
             e == IF IsSome(ChildId(env.ps, p))
                  THEN TermThenKill(env, -p)
                  ELSE env
         IN  ChildKill(e, p)
    ELSE env

\* Phase 2: the recorded process group.
KillGroup(env, sd) ==
    IF IsSome(sd.process_group_id)
    THEN TermThenKill(env, -Unwrap(sd.process_group_id))
    ELSE env

\* Phase 3: for pid in session_data.running_processes { ... }
RECURSIVE KillEach(_, _)
KillEach(env, pids) ==
    IF pids = << >> THEN env
    ELSE KillEach(TermThenKill(env, Head(pids)), Tail(pids))

\* A termination that signals the tracked pids before the recorded group.
TerminateRemovedPidsFirst(env, sd) ==
    KillGroup(KillEach(KillCurrent(env, sd), sd.running_processes), sd)

\* close_terminal_session: what is done with the removed session's data.
TerminateRemoved(env, sd) ==
    KillEach(KillGroup(KillCurrent(env, sd), sd), sd.running_processes)

\* cleanup_all_terminals: the body of the loop over terminals.drain().
SweepOne(env, sd) ==
    KillEach(KillGroup(KillCurrent(env, sd), sd), sd.running_processes)

\* A sweep that gives up at the first session with a signal that failed.
RECURSIVE SweepStopsOnFailure(_, _, _)
SweepStopsOnFailure(env, tm, order) ==
    IF order = << >> THEN env
    ELSE LET e == SweepOne(env, tm[Head(order)]) IN
         IF \E i \in DOMAIN e.log : ~e.log[i][3]
         THEN e
         ELSE SweepStopsOnFailure(e, tm, Tail(order))

\* for (_, session_data) in terminals.drain(): order is the order in which
\* the HashMap hands out its entries.
RECURSIVE Sweep(_, _, _)
Sweep(env, tm, order) ==
    IF order = << >> THEN env
    ELSE Sweep(SweepOne(env, tm[Head(order)]), tm, Tail(order))

\* The orders a HashMap may iterate its keys in: every arrangement of them.
Orders(S) ==
    { o \in [1..Cardinality(S) -> S] : \A i, j \in DOMAIN o : i # j => o[i] # o[j] }

\* ----------------------------------------------------------------- tasks
\* pc: "idle" (no handler running), "acquire" (suspended in
\* state.terminals.lock().await), "exec_wait" (inside wait_with_output, the
\* guard alive) or "returned" (the result is being handed to the caller).
\* live is filled for kill_current only: the session's commands that an
\* execute_terminal_command was waiting for when the interrupt was called.
\* found is filled when the handler returns: whether its lookup of sid in the
\* registry found a session.  out and err are filled when
\* execute_terminal_command has its command's output: the captured stdout and
\* stderr.  before is filled when execute_terminal_command has looked its
\* session up: the session's tracked pids and recorded group id at that moment.
NoCall == [op |-> "none", sid |-> 0, wd |-> "", child |-> None, live |-> {},
           found |-> FALSE, out |-> << >>, err |-> << >>, before |-> None]

\* The commands of session sid that an execute_terminal_command is waiting
\* for now and that are still running.
LiveCommands(sid) ==
    { p \in DOMAIN procs :
        /\ procs[p].st = "running"
        /\ \E u \in Tasks :
              /\ pc[u] = "exec_wait"
              /\ call[u].sid = sid
              /\ call[u].child = Some(p) }

Pending(op) == Cardinality({ t \in Tasks : pc[t] = "acquire" /\ call[t].op = op })

\* What the frontend may invoke now.
CreateCalls ==
    IF Len(issued) + Pending("create") < MaxSessions
    THEN { [NoCall EXCEPT !.op = "create", !.wd = wd] : wd \in WorkingDirs }
    ELSE {}
SessionCalls(op) ==
    { [NoCall EXCEPT !.op = op, !.sid = sid,
                     !.live = IF op = "kill_current" THEN LiveCommands(sid) ELSE {}] :
        sid \in SessionIds }
CleanupCalls == { [NoCall EXCEPT !.op = "cleanup"] }
FreshCalls(op) ==
    IF op = "create" THEN CreateCalls
    ELSE IF op = "cleanup" THEN CleanupCalls
    ELSE SessionCalls(op)
Ops == {"create", "send_input", "get_output", "kill_current", "execute",
        "close", "cleanup", "start_interactive"}

\* Nothing else moves while a result is being handed over.
Quiet == \A u \in Tasks : pc[u] # "returned"

Init ==
    /\ terminals = << >>
    /\ lock = None
    /\ queue = << >>
    /\ pc = [t \in Tasks |-> "idle"]
    /\ call = [t \in Tasks |-> NoCall]
    /\ result = [t \in Tasks |-> NoResult]
    /\ sent = [t \in Tasks |-> << >>]
    /\ procs = << >>
    /\ issued = << >>
    /\ steps = [t \in Tasks |-> << >>]
    /\ held = [m \in Mutexes |-> None]

\* Idle tasks are interchangeable: a new invocation runs as the first of them.
FirstIdle(t) ==
    /\ pc[t] = "idle"
    /\ \A u \in Tasks : u < t => pc[u] # "idle"

\* A handler is invoked while the registry mutex is taken:
\* state.terminals.lock().await suspends it, at the end of the mutex's queue.
Block(t) ==
    /\ Quiet
    /\ FirstIdle(t)
    /\ lock # None
    /\ \E op \in Ops : \E c \in FreshCalls(op) :
         call' = [call EXCEPT ![t] = c]
    /\ pc' = [pc EXCEPT ![t] = "acquire"]
    /\ queue' = Append(queue, t)
    /\ UNCHANGED << terminals, lock, result, sent, procs, issued >>
    /\ UNCHANGED lockvars

\* Task t gets the mutex: at once when it is free and nobody waits (the
\* handler then runs from its invocation on), or as the first of the queue.
Begin(t) ==
    /\ Quiet
    /\ lock = None
    /\ \/ FirstIdle(t) /\ queue = << >>
       \/ pc[t] = "acquire" /\ Head(queue) = t

\* The calls of handler op that task t may begin now.
Args(t, op) ==
    IF pc[t] = "acquire"
    THEN IF call[t].op = op THEN {call[t]} ELSE {}
    ELSE FreshCalls(op)

Dequeue(t) == IF pc[t] = "acquire" THEN Tail(queue) ELSE queue

\* The handler returns: its guard on the registry is dropped with it.
Return(t, c, r, log) ==
    /\ pc' = [pc EXCEPT ![t] = "returned"]
    /\ call' = [call EXCEPT ![t] = [c EXCEPT !.found = c.sid \in DOMAIN terminals]]
    /\ result' = [result EXCEPT ![t] = r]
    /\ sent' = [sent EXCEPT ![t] = log]
    /\ lock' = None
    /\ queue' = Dequeue(t)

\* The caller has the result.
Done(t) ==
    /\ pc[t] = "returned"
    /\ pc' = [pc EXCEPT ![t] = "idle"]
    /\ call' = [call EXCEPT ![t] = NoCall]
    /\ result' = [result EXCEPT ![t] = NoResult]
    /\ sent' = [sent EXCEPT ![t] = << >>]
    /\ UNCHANGED << terminals, lock, queue, procs, issued >>
    /\ UNCHANGED lockvars

\* ------------------------------------------------------- the registry map
MapInsert(tm, k, v) == [x \in DOMAIN tm \cup {k} |-> IF x = k THEN v ELSE tm[x]]
\* A removal that leaves the entry in the map.
MapRemoveNothing(tm, k) == tm

\* A removal that empties the map.
MapClear(tm, k) == << >>

MapRemove(tm, k) == [x \in DOMAIN tm \ {k} |-> tm[x]]

\* Uuid::new_v4(): a version 4 UUID, taken never to repeat.
NewV4(iss) == Len(iss) + 1

\* A key numbered after the sessions the registry holds now.
NewSessionIdByCount(iss, tm) == Cardinality(DOMAIN tm) + 1

\* The key create_terminal_session stores the new session under.
NewSessionId(iss, tm) == NewV4(iss)

NewSessionData(id, wd) ==
    [session |-> [id |-> id, name |-> "Terminal", working_directory |-> wd],
     running_processes |-> << >>,
     process_group_id |-> None,
     current_process |-> None,
     output_buffer |-> << >>,
     is_interactive |-> FALSE]

\* Command::current_dir(..).spawn() fails in a directory that does not exist.
DirExists(wd) == wd = "/tmp"

\* ------------------------------------------------ create_terminal_session
CreateRun(t) ==
    \E c \in Args(t, "create") :
      /\ Begin(t)
      /\ LET id == NewSessionId(issued, terminals)
             sd == NewSessionData(id, c.wd)
         IN  /\ issued' = Append(issued, id)
             /\ terminals' = MapInsert(terminals, id, sd)
             /\ Return(t, c, [Ok(<< >>) EXCEPT !.session = Some(sd.session)], << >>)
      /\ UNCHANGED procs
      /\ UNCHANGED lockvars

\* -------------------------------------------------- send_input_to_process
\* A send that reports success when there is no process to write to.
NoActiveProcessOk == Ok(<< >>)

\* Line 110: no current process, or one without a stdin handle.
NoActiveProcess == Err(NO_ACTIVE)

\* The outcome of send_input_to_process on the registry tm: write_all and
\* flush succeed while the child reads its stdin, and fail once it has ended.
SendInput(tm, ps, sid) ==
    IF sid \notin DOMAIN tm THEN Err(NOT_FOUND)
    ELSE IF tm[sid].current_process = None THEN NoActiveProcess
    ELSE LET p == Unwrap(tm[sid].current_process) IN
         IF ~HasStdin(ps[p]) THEN NoActiveProcess
         ELSE IF ps[p].st = "running"
         THEN [Ok(<< >>) EXCEPT !.wrote = Some(p)]
         ELSE Err(SEND_FAILED)

SendInputRun(t) ==
    \E c \in Args(t, "send_input") :
      /\ Begin(t)
      /\ Return(t, c, SendInput(terminals, procs, c.sid), << >>)
      /\ UNCHANGED << terminals, procs, issued >>
      /\ UNCHANGED lockvars

\* ----------------------------------------------------- get_process_output
\* An idle poll that answers like a poll with no new output.
PollIdleEmpty == Ok(<< >>)

\* The answer when no process is attached to the session.
PollIdle == Ok(NO_PROCESS)

\* The answer when try_wait finds the attached process exited.
PollExited(output, code) ==
    IF output # << >>
    THEN Ok(output \o << "\n" >> \o ExitSentinel(code))
    ELSE Ok(ExitSentinel(code))

\* The session after a poll that found the attached process exited.
AfterExitPoll(sd) == [sd EXCEPT !.output_buffer = << >>]

\* A poll of a running process that leaves the buffer as it is.
AfterPollNotCleared(sd) == sd

\* Lines 144-148: the session after a poll that found the process running;
\* the text is taken and the buffer cleared under the buffer's mutex.
AfterPoll(sd) == [sd EXCEPT !.output_buffer = << >>]

\* get_process_output on registry tm and process table ps: the answer (res)
\* and what it leaves of both.  fails: try_wait itself returns an error.
Poll(tm, ps, sid, fails) ==
    IF sid \notin DOMAIN tm
    THEN [res |-> Err(NOT_FOUND), tm |-> tm, ps |-> ps]
    ELSE IF tm[sid].current_process = None
    THEN [res |-> PollIdle, tm |-> tm, ps |-> ps]
    ELSE LET sd == tm[sid]
             p == Unwrap(sd.current_process)
         IN  IF fails
             THEN [res |-> Ok(PROCESS_ERROR), tm |-> tm, ps |-> ps]
             ELSE IF TryWait(ps, p) = "exited"
             THEN [res |-> PollExited(sd.output_buffer, ps[p].code),
                   tm |-> [tm EXCEPT ![sid] = AfterExitPoll(sd)],
                   ps |-> [ps EXCEPT ![p] = Reaped(@, ps[p].code)]]
             ELSE [res |-> Ok(sd.output_buffer),
                   tm |-> [tm EXCEPT ![sid] = AfterPoll(sd)],
                   ps |-> ps]

GetOutputRun(t) ==
    \E c \in Args(t, "get_output"), fails \in BOOLEAN :
      /\ Begin(t)
      /\ LET o == Poll(terminals, procs, c.sid, fails) IN
         /\ terminals' = o.tm
         /\ procs' = o.ps
         /\ Return(t, c, o.res, << >>)
      /\ UNCHANGED issued
      /\ UNCHANGED lockvars

\* --------------------------------------------------- kill_current_process
\* What kill_current_process sends for the session's attached process.
InterruptSignals(env, sd) ==
    IF IsSome(sd.current_process)
    THEN LET p == Unwrap(sd.current_process)
             e == IF IsSome(ChildId(env.ps, p))
                  THEN TermThenKill(env, -p)
                  ELSE env
         IN  ChildKill(e, p)
    ELSE env

\* An interrupt that leaves the killed process attached.
InterruptedNotDetached(ps, sd) ==
    [sd EXCEPT !.process_group_id = None, !.output_buffer = << >>]

\* The session's data when kill_current_process is done with it.
Interrupted(ps, sd) ==
    LET rp == IF /\ IsSome(sd.current_process)
                 /\ IsSome(ChildId(ps, Unwrap(sd.current_process)))
              THEN Retain(sd.running_processes, Unwrap(sd.current_process))
              ELSE sd.running_processes
    IN  [sd EXCEPT !.running_processes = rp,
                   !.current_process = None,
                   !.process_group_id = None,
                   !.output_buffer = << >>]

KillCurrentRun(t) ==
    \E c \in Args(t, "kill_current") :
      /\ Begin(t)
      /\ IF c.sid \notin DOMAIN terminals
         THEN /\ Return(t, c, Err(NOT_FOUND), << >>)
              /\ UNCHANGED << terminals, procs >>
         ELSE LET env == InterruptSignals([ps |-> procs, log |-> << >>],
                                          terminals[c.sid])
              IN  /\ procs' = env.ps
                  /\ terminals' =
                       [terminals EXCEPT
                          ![c.sid] = Interrupted(procs, terminals[c.sid])]
                  /\ Return(t, c, Ok(<< >>), env.log)
      /\ UNCHANGED issued
      /\ UNCHANGED lockvars

\* ------------------------------------------------ execute_terminal_command
\* The captured stdout and stderr of a finished command.
Stdouts == {<< >>, << "out" >>}
Stderrs == {<< >>, << "err" >>}

\* A result with the two streams the other way round.
CombinedStderrFirst(stdout, stderr) == stderr \o stdout

\* format!("{}{}", stdout, stderr), or stdout alone when stderr is empty.
Combined(stdout, stderr) ==
    IF stderr # << >> THEN stdout \o stderr ELSE stdout

\* A recording that keeps a group id the session already has.
RecordedKeepsGroup(sd, pid) ==
    [sd EXCEPT !.running_processes = Append(@, pid),
               !.process_group_id = IF @ = None THEN Some(pid) ELSE @]

\* A recording that also attaches the command as the current process.
RecordedAndAttached(sd, pid) ==
    [sd EXCEPT !.running_processes = Append(@, pid),
               !.process_group_id = Some(pid),
               !.current_process = Some(pid)]

\* Lines 243-245: the session's data once the spawned command is recorded.
Recorded(sd, pid) ==
    [sd EXCEPT !.running_processes = Append(@, pid),
               !.process_group_id = Some(pid)]

\* The pids a session tracks and the group id it has recorded.
Tracked(sd) == << sd.running_processes, sd.process_group_id >>

\* A wait failure that takes the command out of the session's records.
AfterWaitFailureUntracked(sd, pid) ==
    [sd EXCEPT !.running_processes = Retain(@, pid),
               !.process_group_id = None]

\* Line 248: the ? returns with the session as lines 244-245 left it.
AfterWaitFailure(sd, pid) == sd

\* Lines 250-253: running_processes after the command has finished; code is
\* output.status.code().
AfterCommand(rp, code) ==
    IF IsSome(code) THEN Retain(rp, Unwrap(code)) ELSE rp

ExecuteAbsent(t) ==
    \E c \in Args(t, "execute") :
      /\ Begin(t)
      /\ c.sid \notin DOMAIN terminals
      /\ Return(t, c, Err(NOT_FOUND), << >>)
      /\ UNCHANGED << terminals, procs, issued >>
      /\ UNCHANGED lockvars

\* cmd.spawn() fails: the working directory is gone, or the OS refuses.
ExecuteSpawnFails(t) ==
    \E c \in Args(t, "execute") :
      /\ Begin(t)
      /\ c.sid \in DOMAIN terminals
      /\ Return(t, [c EXCEPT !.before = Some(Tracked(terminals[c.sid]))],
                Err(SPAWN_FAILED), << >>)
      /\ UNCHANGED << terminals, procs, issued >>
      /\ UNCHANGED lockvars

\* Lines 225-245: the guard is taken, the command is spawned in its own
\* process group and recorded; the handler then blocks in wait_with_output
\* with the guard still alive.  trap: the command ignores SIGTERM.
ExecuteSpawn(t) ==
    \E c \in Args(t, "execute"), trap \in BOOLEAN :
      /\ Begin(t)
      /\ c.sid \in DOMAIN terminals
      /\ DirExists(terminals[c.sid].session.working_directory)
      /\ CanSpawn(procs)
      /\ LET pid == NextPid(procs) IN
         /\ procs' = MapInsert(procs, pid, NewProc(c.sid, "oneshot", trap))
         /\ terminals' = [terminals EXCEPT ![c.sid] = Recorded(@, pid)]
         /\ call' = [call EXCEPT ![t] =
                       [c EXCEPT !.child = Some(pid),
                                 !.before = Some(Tracked(terminals[c.sid]))]]
      /\ lock' = Some(t)
      /\ queue' = Dequeue(t)
      /\ pc' = [pc EXCEPT ![t] = "exec_wait"]
      /\ UNCHANGED << result, sent, issued >>
      /\ UNCHANGED lockvars

\* Lines 247-262: the command has exited and its pipes are drained.
ExecuteFinish(t) ==
    /\ Quiet
    /\ pc[t] = "exec_wait"
    /\ LET sid == call[t].sid
           p == Unwrap(call[t].child)
       IN  /\ procs[p].st = "zombie"
           /\ procs' = [procs EXCEPT ![p] = Reaped(@, None)]
           /\ terminals' =
                [terminals EXCEPT
                   ![sid].running_processes = AfterCommand(@, procs[p].code)]
           /\ \E stdout \in Stdouts, stderr \in Stderrs :
                Return(t, [call[t] EXCEPT !.out = stdout, !.err = stderr],
                       Ok(Combined(stdout, stderr)), << >>)
    /\ UNCHANGED issued
    /\ UNCHANGED lockvars

\* Line 248: wait_with_output fails.  waitpid on a running child blocks and
\* is retried when interrupted, so it fails only when the child has ended and
\* its status was collected elsewhere (SIGCHLD ignored, a foreign reaper).
\* The ? returns before line 250: the pid stays recorded in the session.
ExecuteWaitFails(t) ==
    /\ Quiet
    /\ pc[t] = "exec_wait"
    /\ LET p == Unwrap(call[t].child)
       IN  /\ procs[p].st = "zombie"
           /\ procs' = [procs EXCEPT ![p] = Reaped(@, None)]
           /\ terminals' =
                [terminals EXCEPT ![call[t].sid] = AfterWaitFailure(@, p)]
    /\ Return(t, call[t], Err(EXEC_FAILED), << >>)
    /\ UNCHANGED issued
    /\ UNCHANGED lockvars

\* -------------------------------------------------- close_terminal_session
\* A close that reports an unknown id, as the other handlers do.
CloseAbsentFails == Err(NOT_FOUND)

\* What close returns for an id that is not in the registry.
CloseAbsent == Ok(<< >>)

CloseRun(t) ==
    \E c \in Args(t, "close") :
      /\ Begin(t)
      /\ IF c.sid \in DOMAIN terminals
         THEN LET env == TerminateRemoved([ps |-> procs, log |-> << >>],
                                          terminals[c.sid])
              IN  /\ terminals' = MapRemove(terminals, c.sid)
                  /\ procs' = env.ps
                  /\ Return(t, c, Ok(<< >>), env.log)
         ELSE /\ Return(t, c, CloseAbsent, << >>)
              /\ UNCHANGED << terminals, procs >>
      /\ UNCHANGED issued
      /\ UNCHANGED lockvars

\* --------------------------------------------------- cleanup_all_terminals
\* cleanup_dev_ports signals whatever listens on the development ports; the
\* processes of the drained sessions have been killed by then.
CleanupRun(t) ==
    \E c \in Args(t, "cleanup") :
      /\ Begin(t)
      /\ \E order \in Orders(DOMAIN terminals) :
           LET env == Sweep([ps |-> procs, log |-> << >>], terminals, order)
           IN  /\ procs' = env.ps
               /\ Return(t, c, Ok(<< >>), env.log)
      /\ terminals' = << >>
      /\ UNCHANGED issued
      /\ UNCHANGED lockvars

\* ------------------------------------- interactive commands (spec 4.3, 4.4)
\* lib.rs reads current_process and output_buffer but holds no code that
\* attaches a process or fills the buffer.  The interactive mode of
\* run_command is taken from the specification: the command is spawned with
\* piped stdio in its own group, recorded like a one-shot command, attached as
\* the session's current process, and the handler returns without waiting; a
\* start on a session that has a process attached is rejected.
Attached(sd, pid) ==
    [sd EXCEPT !.running_processes = Append(@, pid),
               !.process_group_id = Some(pid),
               !.current_process = Some(pid)]

StartInteractiveRun(t) ==
    \E c \in Args(t, "start_interactive"), trap \in BOOLEAN :
      /\ Begin(t)
      /\ IF c.sid \notin DOMAIN terminals
         THEN /\ Return(t, c, Err(NOT_FOUND), << >>)
              /\ UNCHANGED << terminals, procs >>
         ELSE IF IsSome(terminals[c.sid].current_process)
         THEN /\ Return(t, c, Err(ALREADY_ATTACHED), << >>)
              /\ UNCHANGED << terminals, procs >>
         ELSE IF ~(DirExists(terminals[c.sid].session.working_directory)
                   /\ CanSpawn(procs))
         THEN /\ Return(t, c, Err(SPAWN_FAILED), << >>)
              /\ UNCHANGED << terminals, procs >>
         ELSE LET pid == NextPid(procs) IN
              /\ procs' = MapInsert(procs, pid, NewProc(c.sid, "interactive", trap))
              /\ terminals' = [terminals EXCEPT ![c.sid] = Attached(@, pid)]
              /\ Return(t, [c EXCEPT !.child = Some(pid)], Ok(<< >>), << >>)
      /\ UNCHANGED issued
      /\ UNCHANGED lockvars

\* The chunks process number k writes, in order.
ChunkNames ==
    << << "p1c1", "p1c2", "p1c3" >>, << "p2c1", "p2c2", "p2c3" >>,
       << "p3c1", "p3c2", "p3c3" >>, << "p4c1", "p4c2", "p4c3" >> >>
Chunk(p, k) == ChunkNames[p - PidOf(0)][k]

\* The output reader task of an interactive process: it reads the next chunk
\* from the child's pipe and appends it to the session's output buffer, under
\* the buffer's own mutex, which no handler holds between its steps.  What
\* is left in the pipe when the child's handle is reaped is not read.
ReaderAppend(p) ==
    /\ Quiet
    /\ procs[p].kind = "interactive"
    /\ procs[p].st # "reaped"
    /\ procs[p].emitted < MaxChunks
    /\ procs[p].owner \in DOMAIN terminals
    /\ terminals[procs[p].owner].current_process = Some(p)
    /\ procs' = [procs EXCEPT ![p].emitted = @ + 1]
    /\ terminals' =
         [terminals EXCEPT
            ![procs[p].owner].output_buffer =
                Append(@, Chunk(p, procs[p].emitted + 1))]
    /\ UNCHANGED << lock, queue, pc, call, result, sent, issued >>
    /\ UNCHANGED lockvars

\* ---------------------------------------------------------- the processes
\* A running command ends by itself with an exit code, or is ended from
\* outside the program by a signal (its status then has no code).
ExitStatuses == { Some(c) : c \in ExitCodes } \cup {None}

ProcExit(p) ==
    /\ Quiet
    /\ procs[p].st = "running"
    /\ \E status \in ExitStatuses :
         procs' = [procs EXCEPT ![p] = Exited(@, status)]
    /\ UNCHANGED << terminals, lock, queue, pc, call, result, sent, issued >>
    /\ UNCHANGED lockvars

\* ------------------------------------------------------------------- Next
Next ==
    \/ \E t \in Tasks :
         \/ Block(t)
         \/ Done(t)
         \/ CreateRun(t)
         \/ SendInputRun(t)
         \/ GetOutputRun(t)
         \/ KillCurrentRun(t)
         \/ ExecuteAbsent(t)
         \/ ExecuteSpawnFails(t)
         \/ ExecuteSpawn(t)
         \/ ExecuteFinish(t)
         \/ ExecuteWaitFails(t)
         \/ CloseRun(t)
         \/ CleanupRun(t)
         \/ StartInteractiveRun(t)
    \/ \E p \in DOMAIN procs :
         \/ ReaderAppend(p)
         \/ ProcExit(p)

Spec == Init /\ [][Next]_vars

TypeOK ==
    /\ lock \in {None} \cup { Some(t) : t \in Tasks }
    /\ \A t \in Tasks : pc[t] \in {"idle", "acquire", "exec_wait", "returned"}
    /\ DOMAIN terminals \subseteq SessionIds
    /\ Range(queue) = { t \in Tasks : pc[t] = "acquire" }

\* ------------------------------------------------- the handlers' mutexes
\* LockSpec follows each handler mutex by mutex: the lock().await calls of
\* its body, in program order, and the places where the guards go out of
\* scope.  Which branch a handler takes depends on the registry; here every
\* branch may be taken at any time.
Acq(m) == << "acq", m >>
Rel(m) == << "rel", m >>

\* Lines 81-85.
CreateProgram == << Acq(RegistryMutex), Rel(RegistryMutex) >>

\* Lines 94-113: the registry, then the child when one is attached.
SendInputPrograms(sid) ==
    { << Acq(RegistryMutex), Rel(RegistryMutex) >>,
      << Acq(RegistryMutex), Acq(ProcessMutex(sid)),
         Rel(ProcessMutex(sid)), Rel(RegistryMutex) >> }

\* A poll that takes the buffer before the registry.
PollProgramBufferFirst(sid) ==
    << Acq(BufferMutex(sid)), Acq(RegistryMutex), Acq(ProcessMutex(sid)),
       Rel(ProcessMutex(sid)), Rel(RegistryMutex), Rel(BufferMutex(sid)) >>

\* Lines 122-152, a process attached and try_wait answering: the registry,
\* the child, the buffer; the guards are dropped in the reverse order.
PollProgram(sid) ==
    << Acq(RegistryMutex), Acq(ProcessMutex(sid)), Acq(BufferMutex(sid)),
       Rel(BufferMutex(sid)), Rel(ProcessMutex(sid)), Rel(RegistryMutex) >>

\* Lines 122-161: also the absent or idle session, and try_wait failing.
PollPrograms(sid) ==
    { << Acq(RegistryMutex), Rel(RegistryMutex) >>,
      << Acq(RegistryMutex), Acq(ProcessMutex(sid)),
         Rel(ProcessMutex(sid)), Rel(RegistryMutex) >>,
      PollProgram(sid) }

\* Lines 170-216: the child's guard ends with the block at line 201, before
\* the buffer is locked at line 209.
KillCurrentPrograms(sid) ==
    { << Acq(RegistryMutex), Rel(RegistryMutex) >>,
      << Acq(RegistryMutex), Acq(BufferMutex(sid)), Rel(BufferMutex(sid)),
         Rel(RegistryMutex) >>,
      << Acq(RegistryMutex), Acq(ProcessMutex(sid)), Rel(ProcessMutex(sid)),
         Acq(BufferMutex(sid)), Rel(BufferMutex(sid)), Rel(RegistryMutex) >> }

\* Lines 225-286: the registry only, from the lookup to the return.
ExecuteProgram == << Acq(RegistryMutex), Rel(RegistryMutex) >>

\* Lines 293-356: the registry, then the removed session's child if any.
ClosePrograms(sid) ==
    { << Acq(RegistryMutex), Rel(RegistryMutex) >>,
      << Acq(RegistryMutex), Acq(ProcessMutex(sid)),
         Rel(ProcessMutex(sid)), Rel(RegistryMutex) >> }

\* Lines 362-424: the registry, then the child of one drained session after
\* the other; order lists the sessions that have one, as drain() yields them.
CleanupProgram(order) ==
    << Acq(RegistryMutex) >>
    \o [i \in 1..(2 * Len(order)) |->
          IF i % 2 = 1 THEN Acq(ProcessMutex(order[(i + 1) \div 2]))
          ELSE Rel(ProcessMutex(order[(i + 1) \div 2]))]
    \o << Rel(RegistryMutex) >>
CleanupPrograms ==
    { CleanupProgram(order) : order \in UNION { Orders(S) : S \in SUBSET SessionIds } }

\* The output reader of an interactive process (spec 4.4): it locks the
\* session's buffer for one append and holds no other mutex.
ReaderProgram(sid) == << Acq(BufferMutex(sid)), Rel(BufferMutex(sid)) >>

\* What a task may start to run.
Programs ==
    {CreateProgram, ExecuteProgram} \cup CleanupPrograms
    \cup UNION { SendInputPrograms(sid) \cup PollPrograms(sid)
                 \cup KillCurrentPrograms(sid) \cup ClosePrograms(sid)
                 \cup {ReaderProgram(sid)} : sid \in SessionIds }

\* The mutexes task t holds.
HeldBy(t) == { m \in Mutexes : held[m] = Some(t) }

LockStart(t) ==
    /\ steps[t] = << >>
    /\ \E prog \in Programs : steps' = [steps EXCEPT ![t] = prog]
    /\ UNCHANGED << terminals, lock, queue, pc, call, result, sent, procs,
                    issued, held >>

\* mutex.lock().await completes: the mutex was free.
LockAcquire(t) ==
    /\ steps[t] # << >>
    /\ Head(steps[t])[1] = "acq"
    /\ held[Head(steps[t])[2]] = None
    /\ held' = [held EXCEPT ![Head(steps[t])[2]] = Some(t)]
    /\ steps' = [steps EXCEPT ![t] = Tail(@)]
    /\ UNCHANGED << terminals, lock, queue, pc, call, result, sent, procs,
                    issued >>

\* The guard goes out of scope.
LockRelease(t) ==
    /\ steps[t] # << >>
    /\ Head(steps[t])[1] = "rel"
    /\ held' = [held EXCEPT ![Head(steps[t])[2]] = None]
    /\ steps' = [steps EXCEPT ![t] = Tail(@)]
    /\ UNCHANGED << terminals, lock, queue, pc, call, result, sent, procs,
                    issued >>

LockNext == \E t \in Tasks : LockStart(t) \/ LockAcquire(t) \/ LockRelease(t)

LockSpec == Init /\ [][LockNext]_vars

\* =================================================================== claims
\* Helpers over a handler's signal log.
SentTo(log, target, sig) ==
    \E i \in DOMAIN log : log[i][1] = target /\ log[i][2] = sig

GracefulThenForceful(log, target) ==
    \E i, j \in DOMAIN log :
        /\ i < j
        /\ log[i][1] = target /\ log[i][2] = "SIGTERM"
        /\ log[j][1] = target /\ log[j][2] = "SIGKILL"

\* Task t's handler begins its body (it gets the registry mutex).
HandlerRuns(t) ==
    \/ CreateRun(t) \/ SendInputRun(t) \/ GetOutputRun(t) \/ KillCurrentRun(t)
    \/ ExecuteAbsent(t) \/ ExecuteSpawnFails(t) \/ ExecuteSpawn(t)
    \/ CloseRun(t) \/ CleanupRun(t) \/ StartInteractiveRun(t)

\* C1: no handler holds the registry mutex while it does long-running I/O:
\* a task that waits in wait_with_output for its command to exit does not
\* hold the mutex.
C1_NoLockDuringLongIo ==
    \A t \in Tasks : pc[t] = "exec_wait" => lock # Some(t)

\* C2: operations on different sessions do not block each other: while
\* execute_terminal_command for session A waits for its command, a handler
\* invoked for another session (or a create) can begin.
C2_OtherSessionsNotBlocked ==
    \A t, u \in Tasks :
        ( /\ pc[t] = "exec_wait"
          /\ pc[u] = "acquire"
          /\ call[u].op # "cleanup"
          /\ call[u].sid # call[t].sid )
        => ENABLED HandlerRuns(u)

\* C3: when kill_current_process returns for a session on which a command
\* started by execute_terminal_command was running at the time of the call,
\* that command's process group has got SIGTERM and then SIGKILL and the
\* process is gone.
C3_InterruptEndsRunningCommand ==
    \A t \in Tasks :
        ( /\ pc[t] = "returned"
          /\ call[t].op = "kill_current"
          /\ result[t].ok )
        => \A p \in call[t].live :
              /\ GracefulThenForceful(sent[t], -p)
              /\ procs[p].st # "running"

\* Task t's handler op returns in this step.
Returns(t, op) ==
    /\ pc[t] # "returned"
    /\ pc'[t] = "returned"
    /\ call'[t].op = op

\* The termination steps for session data sd appear in log: the attached
\* process' handle is killed, the recorded group and every tracked pid get
\* SIGTERM and then SIGKILL.
SessionTerminated(log, sd) ==
    /\ IsSome(sd.current_process)
         => SentTo(log, Unwrap(sd.current_process), "Child::kill")
    /\ IsSome(sd.process_group_id)
         => GracefulThenForceful(log, -Unwrap(sd.process_group_id))
    /\ \A i \in DOMAIN sd.running_processes :
         GracefulThenForceful(log, sd.running_processes[i])

\* C4: cleanup_all_terminals always returns success and leaves the registry
\* empty; every session that was in the registry goes through the termination
\* steps, whether or not a signal to some process failed, and none of their
\* tracked processes is left running.
C4_CleanupSweepsEverySession ==
    [][ \A t \in Tasks :
          Returns(t, "cleanup") =>
            /\ result'[t] = Ok(<< >>)
            /\ terminals' = << >>
            /\ \A sid \in DOMAIN terminals :
                 /\ SessionTerminated(sent'[t], terminals[sid])
                 /\ \A i \in DOMAIN terminals[sid].running_processes :
                      procs'[terminals[sid].running_processes[i]].st # "running"
      ]_vars

\* A cleanup has returned in which a signal failed for a process of one
\* session and a later signal reached a process of another session.
C4_Witness ==
    \E t \in Tasks :
        /\ pc[t] = "returned"
        /\ call[t].op = "cleanup"
        /\ \E i, j \in DOMAIN sent[t] :
             /\ i < j
             /\ ~sent[t][i][3]
             /\ sent[t][j][3]
             /\ procs[TargetPid(sent[t][i][1])].owner
                  # procs[TargetPid(sent[t][j][1])].owner

\* C5: close_terminal_session returns success for every id; afterwards the id
\* is not in the registry; closing an id that is not in the registry changes
\* nothing and sends no signal.
C5_CloseIdempotent ==
    [][ \A t \in Tasks :
          Returns(t, "close") =>
            /\ result'[t] = Ok(<< >>)
            /\ call'[t].sid \notin DOMAIN terminals'
            /\ call'[t].sid \notin DOMAIN terminals
                 => /\ terminals' = terminals
                    /\ procs' = procs
                    /\ sent'[t] = << >>
      ]_vars

\* A close has returned for an id that had been closed before.
C5_Witness ==
    \E t \in Tasks :
        /\ pc[t] = "returned"
        /\ call[t].op = "close"
        /\ ~call[t].found
        /\ call[t].sid \in Range(issued)
        /\ result[t].ok

\* C6: get_process_output on a session with no attached process returns the
\* idle sentinel, which is not the empty string; on an id that is not in the
\* registry it returns the not-found error.
C6_PollIdleSentinel ==
    [][ \A t \in Tasks :
          Returns(t, "get_output") =>
            /\ ( /\ call'[t].sid \in DOMAIN terminals
                 /\ terminals[call'[t].sid].current_process = None )
                 => /\ result'[t] = Ok(NO_PROCESS)
                    /\ result'[t].val # << >>
            /\ call'[t].sid \notin DOMAIN terminals
                 => result'[t] = Err(NOT_FOUND)
      ]_vars

\* A poll has returned the idle sentinel for a session of the registry.
C6_Witness ==
    \E t \in Tasks :
        /\ pc[t] = "returned"
        /\ call[t].op = "get_output"
        /\ call[t].found
        /\ terminals[call[t].sid].current_process = None
        /\ result[t] = Ok(NO_PROCESS)

IsExitAnswer(v) == \E i \in DOMAIN v : v[i] = "__PROCESS_EXITED__:"

\* C8: when a poll has returned the exit sentinel, no process is attached to
\* the session any more and the following poll returns the idle sentinel.
C8_ExitReportedOnce ==
    \A t \in Tasks :
        ( /\ pc[t] = "returned"
          /\ call[t].op = "get_output"
          /\ call[t].found
          /\ IsExitAnswer(result[t].val) )
        => /\ terminals[call[t].sid].current_process = None
           /\ \A fails \in BOOLEAN :
                Poll(terminals, procs, call[t].sid, fails).res = Ok(NO_PROCESS)

C10_OneCommandPerSession ==
    \A sid \in SessionIds :
        Cardinality({ p \in DOMAIN procs :
                        procs[p].owner = sid /\ procs[p].st = "running" }) <= 1

\* The handlers of lib.rs that look a session up by its id.
SessionOps == {"send_input", "get_output", "kill_current", "execute"}

\* The ids that were created and are no longer in the registry.
RemovedIds == Range(issued) \ DOMAIN terminals

\* C11: a close takes the session out of the registry and a cleanup takes out
\* all of them, in the step that terminates their processes; every run
\* command, poll, send input or interrupt that runs for a removed id
\* afterwards returns not-found, spawns nothing, sends no signal and leaves
\* the registry and the processes as they are.
C11_RemovedSessionNotFound ==
    [][ \A t \in Tasks :
          /\ (Returns(t, "close") /\ call'[t].found)
               => /\ call'[t].sid \notin DOMAIN terminals'
                  /\ call'[t].sid \in RemovedIds'
          /\ Returns(t, "cleanup") => DOMAIN terminals' = {}
          /\ (pc[t] # "exec_wait" /\ pc'[t] = "exec_wait")
               => call'[t].sid \in DOMAIN terminals
          /\ \A op \in SessionOps :
               (Returns(t, op) /\ call'[t].sid \in RemovedIds)
                 => /\ result'[t] = Err(NOT_FOUND)
                    /\ terminals' = terminals
                    /\ procs' = procs
                    /\ sent'[t] = << >>
      ]_vars

\* A poll has run for a session that a close had removed together with a
\* process of it: it returned not-found.
C11_Witness ==
    \E t \in Tasks :
        /\ pc[t] = "returned"
        /\ call[t].op = "get_output"
        /\ call[t].sid \in RemovedIds
        /\ result[t] = Err(NOT_FOUND)
        /\ \E p \in DOMAIN procs : procs[p].owner = call[t].sid

\* The chunks among the tokens of a poll's answer, in order.
AllChunks == { ChunkNames[i][k] : i \in DOMAIN ChunkNames, k \in 1..3 }
ChunksOf(v) == SelectSeq(v, LAMBDA x : x \in AllChunks)

\* Chunks lo..hi of process p, in the order p wrote them.
ChunkRun(p, lo, hi) == [i \in 1..(hi - lo + 1) |-> Chunk(p, lo + i - 1)]

\* The buffer holds nothing, or the latest chunks of the attached process:
\* whole, in the order they were written, none of them twice.
BufferIsLatestRun(sd) ==
    \/ sd.output_buffer = << >>
    \/ /\ IsSome(sd.current_process)
       /\ LET p == Unwrap(sd.current_process) IN
          \E lo \in 1..procs[p].emitted :
              sd.output_buffer = ChunkRun(p, lo, procs[p].emitted)

\* C12: a poll of a session with a process attached returns exactly what the
\* buffer holds at that instant and leaves the buffer empty (a poll on which
\* try_wait fails returns no text and leaves the buffer alone); between polls
\* the buffer only grows by whole chunks at its end.  So every chunk is
\* returned by at most one poll, whole, and in the order of the appends.
C12_PollReadsAndClears ==
    [][ /\ \A t \in Tasks :
             ( /\ Returns(t, "get_output")
               /\ call'[t].found
               /\ IsSome(terminals[call'[t].sid].current_process) )
             => LET sid == call'[t].sid IN
                IF result'[t] = Ok(PROCESS_ERROR)
                THEN terminals'[sid].output_buffer = terminals[sid].output_buffer
                ELSE /\ result'[t].ok
                     /\ ChunksOf(result'[t].val) = terminals[sid].output_buffer
                     /\ terminals'[sid].output_buffer = << >>
        /\ \A sid \in DOMAIN terminals' : BufferIsLatestRun(terminals[sid])'
      ]_vars

\* A poll has returned two chunks at once, in the order they were written.
C12_Witness ==
    \E t \in Tasks :
        /\ pc[t] = "returned"
        /\ call[t].op = "get_output"
        /\ result[t].ok
        /\ \E p \in DOMAIN procs :
              ChunksOf(result[t].val) = << Chunk(p, 1), Chunk(p, 2) >>

\* C13: kill_current_process returns success exactly when the session is in
\* the registry, and not-found otherwise; after a success the session has no
\* current process and an empty output buffer, whether or not a process was
\* attached, and running the handler once more on that state sends nothing
\* and changes nothing.
C13_InterruptClearsAndIsIdempotent ==
    [][ \A t \in Tasks :
          Returns(t, "kill_current") =>
            LET sid == call'[t].sid IN
            IF sid \in DOMAIN terminals
            THEN /\ result'[t] = Ok(<< >>)
                 /\ sid \in DOMAIN terminals'
                 /\ terminals'[sid].current_process = None
                 /\ terminals'[sid].output_buffer = << >>
                 /\ Interrupted(procs', terminals'[sid]) = terminals'[sid]
                 /\ InterruptSignals([ps |-> procs', log |-> << >>],
                                     terminals'[sid])
                      = [ps |-> procs', log |-> << >>]
            ELSE result'[t] = Err(NOT_FOUND)
      ]_vars

\* An interrupt has returned success after it signalled and killed the
\* process that was attached to the session.
C13_Witness ==
    \E t \in Tasks :
        /\ pc[t] = "returned"
        /\ call[t].op = "kill_current"
        /\ call[t].found
        /\ result[t].ok
        /\ terminals[call[t].sid].current_process = None
        /\ \E p \in DOMAIN procs :
              /\ procs[p].owner = call[t].sid
              /\ SentTo(sent[t], -p, "SIGKILL")
              /\ SentTo(sent[t], p, "Child::kill")

\* C14: kill_current_process on a session in the registry with no current
\* process is a no-op: it returns success, sends no signal, touches no
\* process and leaves the session's tracked pids and its recorded process
\* group id as they were.
C14_InterruptWithoutProcessIsNoOp ==
    [][ \A t \in Tasks :
          ( /\ Returns(t, "kill_current")
            /\ call'[t].sid \in DOMAIN terminals
            /\ terminals[call'[t].sid].current_process = None )
          => LET sid == call'[t].sid IN
             /\ result'[t] = Ok(<< >>)
             /\ sent'[t] = << >>
             /\ procs' = procs
             /\ terminals'[sid].running_processes
                  = terminals[sid].running_processes
             /\ terminals'[sid].process_group_id
                  = terminals[sid].process_group_id
      ]_vars

\* C15: send_input_to_process returns not-found for an id that is not in the
\* registry and the no-active-process error for a session without a current
\* process or whose current process has no stdin handle; in both cases
\* nothing is written.  No send changes the registry or a process.
C15_SendInputErrors ==
    [][ \A t \in Tasks :
          Returns(t, "send_input") =>
            LET sid == call'[t].sid IN
            /\ terminals' = terminals
            /\ procs' = procs
            /\ sent'[t] = << >>
            /\ sid \notin DOMAIN terminals
                 => result'[t] = Err(NOT_FOUND)
            /\ ( /\ sid \in DOMAIN terminals
                 /\ \/ terminals[sid].current_process = None
                    \/ ~HasStdin(procs[Unwrap(terminals[sid].current_process)]) )
                 => result'[t] = Err(NO_ACTIVE)
            /\ ~result'[t].ok => result'[t].wrote = None
      ]_vars

\* A send to a session that ran a one-shot command and has no current
\* process has returned the no-active-process error.
C15_Witness ==
    \E t \in Tasks :
        /\ pc[t] = "returned"
        /\ call[t].op = "send_input"
        /\ call[t].found
        /\ terminals[call[t].sid].current_process = None
        /\ terminals[call[t].sid].running_processes # << >>
        /\ result[t] = Err(NO_ACTIVE)

\* Task t's execute_terminal_command spawns its command in this step.
Spawns(t) == pc[t] # "exec_wait" /\ pc'[t] = "exec_wait"

\* C16: in the step in which execute_terminal_command spawns its command, the
\* new process' pid is appended to the session's tracked pids and becomes the
\* session's recorded process group id, whatever group id was recorded before.
C16_SpawnedPidRecorded ==
    [][ \A t \in Tasks :
          Spawns(t) =>
            LET sid == call'[t].sid
                pid == Unwrap(call'[t].child)
            IN  /\ pid \notin DOMAIN procs
                /\ pid \in DOMAIN procs'
                /\ procs'[pid].st = "running"
                /\ terminals'[sid].running_processes
                     = Append(terminals[sid].running_processes, pid)
                /\ terminals'[sid].process_group_id = Some(pid)
      ]_vars

\* A second one-shot command of a session has been spawned: its pid has
\* replaced the first command's pid as the recorded group id.
C16_Witness ==
    \E t \in Tasks :
        /\ pc[t] = "exec_wait"
        /\ LET sd == terminals[call[t].sid] IN
           /\ Len(sd.running_processes) = 2
           /\ sd.running_processes[2] = Unwrap(call[t].child)
           /\ sd.process_group_id = call[t].child
           /\ sd.running_processes[1] # sd.running_processes[2]
           /\ procs[sd.running_processes[1]].kind = "oneshot"

\* C17: create_terminal_session for a working directory in which no command
\* can be started returns a spawn error and no session record, and the
\* registry holds only sessions whose working directory exists.
C17_CreateFailsOnBadDirectory ==
    /\ \A t \in Tasks :
         ( /\ pc[t] = "returned"
           /\ call[t].op = "create"
           /\ ~DirExists(call[t].wd) )
         => /\ result[t] = Err(SPAWN_FAILED)
            /\ result[t].session = None
    /\ \A sid \in DOMAIN terminals :
         DirExists(terminals[sid].session.working_directory)

\* The targets and signals of a signal log, without the outcomes.
Targets(log) == [i \in DOMAIN log |-> << log[i][1], log[i][2] >>]

\* SIGTERM and then SIGKILL for each target of ts, target after target.
TermKillPairs(ts) ==
    [i \in 1..(2 * Len(ts)) |->
        << ts[(i + 1) \div 2], IF i % 2 = 1 THEN "SIGTERM" ELSE "SIGKILL" >>]

\* The order C18 gives for one removed session: the attached process' group
\* (while the handle still has a pid) and its handle, then the recorded
\* group, then the tracked pids one by one.
TerminationOrder(sd, ps) ==
    LET cur == IF sd.current_process = None THEN << >>
               ELSE LET p == Unwrap(sd.current_process) IN
                    (IF ps[p].st = "reaped" THEN << >>
                     ELSE TermKillPairs(<< -p >>))
                    \o << << p, "Child::kill" >> >>
        grp == IF sd.process_group_id = None THEN << >>
               ELSE TermKillPairs(<< -Unwrap(sd.process_group_id) >>)
    IN  cur \o grp \o TermKillPairs(sd.running_processes)

RECURSIVE SweepOrder(_, _, _)
SweepOrder(tm, ps, order) ==
    IF order = << >> THEN << >>
    ELSE TerminationOrder(tm[Head(order)], ps) \o SweepOrder(tm, ps, Tail(order))

\* C18: the signals of a close are, in this order, those for the attached
\* process (its group, then its handle), those for the recorded group and
\* those for every tracked pid, SIGTERM before SIGKILL for each target, and
\* all of them are sent whether or not an earlier one failed; a cleanup sends
\* the same for one session after the other.
C18_TerminationOrder ==
    [][ \A t \in Tasks :
          /\ (Returns(t, "close") /\ call'[t].found)
               => Targets(sent'[t])
                    = TerminationOrder(terminals[call'[t].sid], procs)
          /\ Returns(t, "cleanup")
               => \E order \in Orders(DOMAIN terminals) :
                    Targets(sent'[t]) = SweepOrder(terminals, procs, order)
      ]_vars

\* A close has gone through all three phases for a session with an attached
\* process: the signals of the later phases failed and were sent all the same.
C18_Witness ==
    \E t \in Tasks :
        /\ pc[t] = "returned"
        /\ call[t].op = "close"
        /\ Len(sent[t]) = 7
        /\ sent[t][3][3]
        /\ ~sent[t][4][3]
        /\ sent[t][7][2] = "SIGKILL"

\* C19: a successful execute_terminal_command returns the command's captured
\* stdout followed by its captured stderr, hence the stdout alone when the
\* stderr is empty, and returns only when the command has exited; for an id
\* that is not in the registry it returns not-found and spawns nothing.
C19_RunCommandOutput ==
    [][ \A t \in Tasks :
          Returns(t, "execute") =>
            /\ result'[t].ok =>
                 /\ result'[t].val = call'[t].out \o call'[t].err
                 /\ call'[t].err = << >> => result'[t].val = call'[t].out
                 /\ IsSome(call'[t].child)
                 /\ procs[Unwrap(call'[t].child)].st = "zombie"
                 /\ procs'[Unwrap(call'[t].child)].st = "reaped"
            /\ call'[t].sid \notin DOMAIN terminals =>
                 /\ result'[t] = Err(NOT_FOUND)
                 /\ call'[t].child = None
                 /\ procs' = procs
      ]_vars

\* A command that wrote to both streams has returned.
C19_Witness ==
    \E t \in Tasks :
        /\ pc[t] = "returned"
        /\ call[t].op = "execute"
        /\ result[t].ok
        /\ call[t].out # << >>
        /\ call[t].err # << >>
        /\ result[t].val = << "out", "err" >>

\* C20: when execute_terminal_command returns successfully, the pid of its
\* finished command is no longer among the session's tracked pids, and the
\* other tracked pids are all still there, in their order.
C20_FinishedPidUntracked ==
    [][ \A t \in Tasks :
          (Returns(t, "execute") /\ result'[t].ok) =>
            LET sid == call'[t].sid
                pid == Unwrap(call'[t].child)
            IN  /\ pid \notin Range(terminals'[sid].running_processes)
                /\ terminals'[sid].running_processes
                     = Retain(terminals[sid].running_processes, pid)
      ]_vars

\* C21 as amended: when execute_terminal_command returns not-found or a spawn
\* failure, the registry is as it was before the call, tracked pids and
\* recorded group ids included; when it returns a failure of waiting for the
\* command's output, the session's tracked pids are those from before the call
\* followed by the spawned command's pid, and that pid is the recorded group id.
C21_ErrorTrackingAsRecorded ==
    [][ \A t \in Tasks :
          (Returns(t, "execute") /\ ~result'[t].ok) =>
            LET sid == call'[t].sid IN
            IF result'[t] = Err(EXEC_FAILED)
            THEN LET pid == Unwrap(call'[t].child)
                     was == Unwrap(call'[t].before)
                 IN  Tracked(terminals'[sid])
                       = << Append(was[1], pid), Some(pid) >>
            ELSE /\ terminals' = terminals
                 /\ call'[t].child = None
                 /\ call'[t].found
                      => Tracked(terminals'[sid]) = Unwrap(call'[t].before)
      ]_vars

\* A second command of a session has failed while it was waited for.
C21_Witness ==
    \E t \in Tasks :
        /\ pc[t] = "returned"
        /\ call[t].op = "execute"
        /\ result[t] = Err(EXEC_FAILED)
        /\ Unwrap(call[t].before)[1] # << >>

\* C21 as claimed: when execute_terminal_command returns an error, the
\* session's tracked pids and recorded group id are those from before the call.
C21_ErrorLeavesTrackingUnchanged ==
    \A t \in Tasks :
        ( /\ pc[t] = "returned"
          /\ call[t].op = "execute"
          /\ ~result[t].ok
          /\ call[t].found )
        => Tracked(terminals[call[t].sid]) = Unwrap(call[t].before)

\* The place of a mutex in the order: the registry, then a session's child,
\* then its buffer.
Rank(m) == IF m = RegistryMutex THEN 1 ELSE IF m[1] = "process" THEN 2 ELSE 3

\* Task t is suspended in lock().await on a mutex that is taken.
Waiting(t) ==
    /\ steps[t] # << >>
    /\ Head(steps[t])[1] = "acq"
    /\ held[Head(steps[t])[2]] # None

\* The task that holds the mutex the waiting task t wants.
Blocker(t) == Unwrap(held[Head(steps[t])[2]])

\* C22: a task that is about to lock a mutex holds only mutexes that come
\* earlier in the order registry, child, buffer; and there is no set of tasks
\* in which every task waits for a mutex held by a task of the set, that is,
\* no cycle of tasks waiting for each other.
C22_LockOrderNoCycle ==
    /\ \A t \in Tasks :
         (steps[t] # << >> /\ Head(steps[t])[1] = "acq")
           => \A m \in HeldBy(t) : Rank(m) < Rank(Head(steps[t])[2])
    /\ \A S \in SUBSET Tasks :
         S # {} => \E t \in S : ~Waiting(t) \/ Blocker(t) \notin S

\* A poll that holds the registry and the child waits for the buffer, which
\* the reader holds.
C22_Witness ==
    \E t, u \in Tasks : \E sid \in SessionIds :
        /\ t # u
        /\ HeldBy(t) = {RegistryMutex, ProcessMutex(sid)}
        /\ Waiting(t)
        /\ Head(steps[t])[2] = BufferMutex(sid)
        /\ HeldBy(u) = {BufferMutex(sid)}

\* The handlers that are addressed to one session id.
AddressedOps == SessionOps \cup {"close"}

\* Task t's handler runs in this step: from its invocation to the wait for
\* its command or to its return, or from that wait to its return.
HandlerStep(t) ==
    /\ pc'[t] # pc[t]
    /\ pc'[t] \in {"exec_wait", "returned"}

\* C23: a step of run command, poll, send input, interrupt or close for one
\* session id leaves the registry entry of every other session in the
\* registry unchanged; and in every step, a session that is in the registry
\* before and after keeps its id (the key it is stored under), its name and
\* its working directory.
C23_IsolationAndImmutability ==
    [][ /\ \A t \in Tasks :
             (HandlerStep(t) /\ call'[t].op \in AddressedOps)
               => \A s \in DOMAIN terminals \ {call'[t].sid} :
                     /\ s \in DOMAIN terminals'
                     /\ terminals'[s] = terminals[s]
        /\ \A s \in DOMAIN terminals \cap DOMAIN terminals' :
             /\ terminals'[s].session = terminals[s].session
             /\ terminals'[s].session.id = s
      ]_vars

\* A close has removed its session while another session, which tracks the
\* pid of a command it has run, is in the registry.
C23_Witness ==
    \E t \in Tasks :
        /\ pc[t] = "returned"
        /\ call[t].op = "close"
        /\ call[t].found
        /\ result[t].ok
        /\ \E s \in DOMAIN terminals :
             /\ s # call[t].sid
             /\ terminals[s].running_processes # << >>
             /\ procs[terminals[s].running_processes[1]].kind = "oneshot"

====
